---- MODULE Spec2Model ----
(***************************************************************************)
(* A model of the Time Logs plugin (TimeLogsPlugin, TimeLogsSettingTab).   *)
(*                                                                         *)
(* Text is modelled character by character: a string is a sequence of      *)
(* one-character strings, so that the regular expressions, trims, splits   *)
(* and template literals of the source are computed, not assumed.          *)
(* Offsets follow JavaScript (0-based, -1 for "not found") wherever the    *)
(* source handles an offset.                                               *)
(***************************************************************************)
EXTENDS Integers, Sequences, FiniteSets, TLC

\* ------------------------------------------------------------------------
\* Bounds of the model
\* ------------------------------------------------------------------------

\* Largest number of "Add time log" mutations applied to one editor line.
MaxAppends == 3

\* Latest tick of the wall clock while the editor's line is mutated.
MaxTicks == 2

\* Largest number of lines of a document given to addTimeLogForDoneTasks.
MaxDocLines == 2

\* Largest number of lines of a file given to collectTimeLogRows.
MaxExportLines == 3

\* ------------------------------------------------------------------------
\* JavaScript string primitives
\* ------------------------------------------------------------------------

\* \s of a JavaScript regular expression, and the set String.prototype.trim
\* strips (restricted to the characters that occur in the model).
WhiteSpace == {" ", "\t", "\r", "\n"}

\* The characters "." of a regular expression does not match.
LineTerminators == {"\n", "\r"}

\* \d of a regular expression.
Digits == {"0", "1", "2", "3", "4", "5", "6", "7", "8", "9"}

\* s.slice(from) with a 0-based offset.
SliceFrom(s, from) == SubSeq(s, from + 1, Len(s))

\* s.slice(0, to) with a 0-based, exclusive end.
SliceTo(s, to) == SubSeq(s, 1, to)

\* s.startsWith(t, at) with a 0-based offset.
StartsWithAt(s, at, t) ==
    /\ at + Len(t) <= Len(s)
    /\ SubSeq(s, at + 1, at + Len(t)) = t

\* The 0-based offset of the first character of s at or after `from` that is
\* in `set`, or -1.
FirstOf(s, from, set) ==
    IF \E j \in from..(Len(s) - 1) : s[j + 1] \in set
    THEN CHOOSE j \in from..(Len(s) - 1) :
            /\ s[j + 1] \in set
            /\ \A k \in from..(j - 1) : s[k + 1] \notin set
    ELSE -1

\* The number of leading characters of s, from offset `from`, that are in set.
RunLength(s, from, set) ==
    LET stop == FirstOf(s, from, {s[j + 1] : j \in from..(Len(s) - 1)} \ set)
    IN  IF stop = -1 THEN Len(s) - from ELSE stop - from

\* String.prototype.trim
trim(s) ==
    IF \A j \in 1..Len(s) : s[j] \in WhiteSpace
    THEN <<>>
    ELSE LET first == CHOOSE j \in 1..Len(s) :
                         s[j] \notin WhiteSpace /\ \A k \in 1..(j - 1) : s[k] \in WhiteSpace
             last  == CHOOSE j \in 1..Len(s) :
                         s[j] \notin WhiteSpace /\ \A k \in (j + 1)..Len(s) : s[k] \in WhiteSpace
         IN  SubSeq(s, first, last)

\* /\s$/.test(s)
EndsWithWhiteSpace(s) == Len(s) > 0 /\ s[Len(s)] \in WhiteSpace

\* /^\s/.test(s)
StartsWithWhiteSpace(s) == Len(s) > 0 /\ s[1] \in WhiteSpace

\* The concatenation of a sequence of strings.
RECURSIVE Concat(_)
Concat(parts) ==
    IF parts = <<>> THEN <<>> ELSE Head(parts) \o Concat(Tail(parts))

\* Array.prototype.join
RECURSIVE join(_, _)
join(parts, sep) ==
    IF parts = <<>> THEN <<>>
    ELSE IF Len(parts) = 1 THEN parts[1]
    ELSE parts[1] \o sep \o join(Tail(parts), sep)

\* s.split(sep) for a one-character separator: the pieces between the
\* separators, empty pieces kept.
RECURSIVE split(_, _)
split(s, sep) ==
    LET at == FirstOf(s, 0, {sep})
    IN  IF at = -1 THEN <<s>>
        ELSE <<SliceTo(s, at)>> \o split(SliceFrom(s, at + 1), sep)

\* content.split(/\r?\n/): the text is cut at every "\n", and a "\r" right
\* before the cut belongs to the separator.
RECURSIVE splitLines(_)
splitLines(s) ==
    LET at == FirstOf(s, 0, {"\n"})
    IN  IF at = -1 THEN <<s>>
        ELSE LET cut == IF at > 0 /\ s[at] = "\r" THEN at - 1 ELSE at
             IN  <<SliceTo(s, cut)>> \o splitLines(SliceFrom(s, at + 1))

\* ------------------------------------------------------------------------
\* getCurrentFormattedTime
\* ------------------------------------------------------------------------

DigitChars == <<"0", "1", "2", "3", "4", "5", "6", "7", "8", "9">>

\* String(n) for a natural number.
RECURSIVE String(_)
String(n) ==
    IF n < 10 THEN <<DigitChars[n + 1]>>
    ELSE String(n \div 10) \o <<DigitChars[(n % 10) + 1]>>

\* s.padStart(2, '0')
padStart2(s) == IF Len(s) >= 2 THEN s ELSE <<"0">> \o s

\* The wall clock at tick t: a Date's local fields (getMonth is 0-based).
\* Tick 0 is 2025-08-28 14:32, and a tick is 28 minutes, so that tick 1 is
\* 15:00 and later ticks reach one-digit minutes.
DateAt(t) ==
    LET minuteOfDay == 14 * 60 + 32 + 28 * t
    IN  [ FullYear |-> 2025,
          Month    |-> 7,
          Date     |-> 28 + (minuteOfDay \div 1440),
          Hours    |-> (minuteOfDay \div 60) % 24,
          Minutes  |-> minuteOfDay % 60 ]

\* `${year}-${month}-${day} -${hours}:${minutes}`
getCurrentFormattedTime(t) ==
    LET now     == DateAt(t)
        year    == String(now.FullYear)
        month   == padStart2(String(now.Month + 1))
        day     == padStart2(String(now.Date))
        hours   == padStart2(String(now.Hours))
        minutes == padStart2(String(now.Minutes))
    IN  year \o <<"-">> \o month \o <<"-">> \o day \o <<" ", "-">>
             \o hours \o <<":">> \o minutes

\* ------------------------------------------------------------------------
\* The marker grammar: /\[time-logs::(.*?)\]/
\* ------------------------------------------------------------------------

\* "[time-logs::"
OpenToken == <<"[","t","i","m","e","-","l","o","g","s",":",":">>

\* The regular expression matches at offset i when the open token is there
\* and the first "]" after it comes before any line terminator ("." does not
\* match one). MarkerClose is the offset of that "]", or -1.
MarkerClose(line, i) ==
    IF ~StartsWithAt(line, i, OpenToken) THEN -1
    ELSE LET j == FirstOf(line, i + Len(OpenToken), {"]"} \cup LineTerminators)
         IN  IF j # -1 /\ line[j + 1] = "]" THEN j ELSE -1

\* line.match(timeLogsRegex): the leftmost match, as
\* [index, end (exclusive), inner (capture group 1)], index -1 when none.
matchTimeLogs(line) ==
    IF \E i \in 0..(Len(line) - 1) : MarkerClose(line, i) # -1
    THEN LET i == CHOOSE i \in 0..(Len(line) - 1) :
                     /\ MarkerClose(line, i) # -1
                     /\ \A k \in 0..(i - 1) : MarkerClose(line, k) = -1
             j == MarkerClose(line, i)
         IN  [ index |-> i, end |-> j + 1,
               inner |-> SubSeq(line, i + Len(OpenToken) + 1, j) ]
    ELSE [ index |-> -1, end |-> -1, inner |-> <<>> ]

containsTimeLogs(line) == matchTimeLogs(line).index # -1

\* /^\s*-\s\[\s\]\s/.test(line)
isUncheckedTaskLine(line) ==
    LET k == RunLength(line, 0, WhiteSpace)
    IN  /\ Len(line) >= k + 6
        /\ line[k + 1] = "-"
        /\ line[k + 2] \in WhiteSpace
        /\ line[k + 3] = "["
        /\ line[k + 4] \in WhiteSpace
        /\ line[k + 5] = "]"
        /\ line[k + 6] \in WhiteSpace

\* /^\s*-\s\[\s*[xX]\s*\]\s/.test(line)
isCheckedTaskLine(line) ==
    LET k == RunLength(line, 0, WhiteSpace)
    IN  /\ Len(line) >= k + 3
        /\ line[k + 1] = "-"
        /\ line[k + 2] \in WhiteSpace
        /\ line[k + 3] = "["
        /\ LET x == k + 3 + RunLength(line, k + 3, WhiteSpace)
           IN  /\ Len(line) >= x + 1
               /\ line[x + 1] \in {"x", "X"}
               /\ LET c == x + 1 + RunLength(line, x + 1, WhiteSpace)
                  IN  /\ Len(line) >= c + 2
                      /\ line[c + 1] = "]"
                      /\ line[c + 2] \in WhiteSpace

\* line.search(/\[[^\[\]\n]*\s*::\s*[^\[\]\n]*\]/): a "[", then characters
\* that are no bracket up to a "]", with "::" among them. (A line holds no
\* "\n": every caller takes it from a split at "\n" or from one editor line.)
DataviewAt(line, i) ==
    /\ i < Len(line)
    /\ line[i + 1] = "["
    /\ LET j == FirstOf(line, i + 1, {"[", "]", "\n"})
       IN  /\ j # -1
           /\ line[j + 1] = "]"
           /\ \E k \in (i + 1)..(j - 2) : line[k + 1] = ":" /\ line[k + 2] = ":"

findFirstInlineDataviewIndex(line) ==
    IF \E i \in 0..(Len(line) - 1) : DataviewAt(line, i)
    THEN CHOOSE i \in 0..(Len(line) - 1) :
            DataviewAt(line, i) /\ \A k \in 0..(i - 1) : ~DataviewAt(line, k)
    ELSE -1

\* ------------------------------------------------------------------------
\* The line mutator
\* ------------------------------------------------------------------------

\* `[time-logs:: ${currentTime}; ]`
timeLogEntry(currentTime) == OpenToken \o <<" ">> \o currentTime \o <<";", " ", "]">>

\* A rebuilt marker that forgets the entries it had.
newLogsForgetting(existingLogs, currentTime) == <<" ">> \o currentTime \o <<";">>

\* existingLogs ? `${existingLogs} ${currentTime};` : ` ${currentTime};`
newLogs(existingLogs, currentTime) ==
    IF existingLogs # <<>>
    THEN existingLogs \o <<" ">> \o currentTime \o <<";">>
    ELSE <<" ">> \o currentTime \o <<";">>

\* `[time-logs::${newLogs} ]`
rebuiltMarker(logs) == OpenToken \o logs \o <<" ", "]">>

\* line + separator + insertion, the separator one space when the line is
\* not empty and does not end with white space.
appendAtEnd(line, insertion) ==
    LET separator == IF Len(line) > 0 /\ ~EndsWithWhiteSpace(line) THEN <<" ">> ELSE <<>>
    IN  line \o separator \o insertion

\* An insertion in front of the first inline field without any padding.
insertBeforeInlineDataviewUnpadded(line, insertion) ==
    LET idx == findFirstInlineDataviewIndex(line)
    IN  IF idx = -1 THEN appendAtEnd(line, insertion)
        ELSE SliceTo(line, idx) \o insertion \o SliceFrom(line, idx)

insertBeforeInlineDataview(line, insertion) ==
    LET idx == findFirstInlineDataviewIndex(line)
    IN  IF idx = -1 THEN appendAtEnd(line, insertion)
        ELSE LET before    == SliceTo(line, idx)
                 after     == SliceFrom(line, idx)
                 sepBefore == IF Len(before) > 0 /\ ~EndsWithWhiteSpace(before)
                              THEN <<" ">> ELSE <<>>
                 sepAfter  == IF Len(after) > 0 /\ ~StartsWithWhiteSpace(after)
                              THEN <<" ">> ELSE <<>>
             IN  before \o sepBefore \o insertion \o sepAfter \o after

\* The patterns of a replacement STRING of String.prototype.replace, for a
\* regular expression with one capture group: $$ is "$", $& the match, $1
\* (and $01) the group, $` and $' the text before and after the match; any
\* other "$" stands for itself.
RECURSIVE expandReplacement(_, _, _, _, _)
expandReplacement(repl, matched, group1, prefix, suffix) ==
    LET at == FirstOf(repl, 0, {"$"})
    IN  IF at = -1 \/ at = Len(repl) - 1 THEN repl
        ELSE LET c     == repl[at + 2]
                 plain == SliceTo(repl, at)
                 rest  == SliceFrom(repl, at + 2)
             IN  plain \o
                 CASE c = "$" -> <<"$">> \o expandReplacement(rest, matched, group1, prefix, suffix)
                   [] c = "&" -> matched \o expandReplacement(rest, matched, group1, prefix, suffix)
                   [] c = "`" -> prefix \o expandReplacement(rest, matched, group1, prefix, suffix)
                   [] c = "'" -> suffix \o expandReplacement(rest, matched, group1, prefix, suffix)
                   [] c = "1" -> group1 \o expandReplacement(rest, matched, group1, prefix, suffix)
                   [] c = "0" /\ Len(repl) >= at + 3 /\ repl[at + 3] = "1" ->
                         group1 \o expandReplacement(SliceFrom(repl, at + 3), matched, group1, prefix, suffix)
                   [] OTHER   -> <<"$">> \o expandReplacement(SliceFrom(repl, at + 1), matched, group1, prefix, suffix)

\* addTimeLog: the new text of the editor's current line.
addTimeLog(currentLine, currentTime) ==
    LET match == matchTimeLogs(currentLine)
    IN  IF match.index # -1
        THEN LET existingLogs == trim(match.inner)
                 prefix       == SliceTo(currentLine, match.index)
                 suffix       == SliceFrom(currentLine, match.end)
                 matched      == SubSeq(currentLine, match.index + 1, match.end)
             IN  prefix
                 \o expandReplacement(rebuiltMarker(newLogs(existingLogs, currentTime)),
                                      matched, match.inner, prefix, suffix)
                 \o suffix
        ELSE IF findFirstInlineDataviewIndex(currentLine) # -1
             THEN insertBeforeInlineDataview(currentLine, timeLogEntry(currentTime))
             ELSE appendAtEnd(currentLine, timeLogEntry(currentTime))

\* appendTimeLogToLine: the replacer is a function, so its result is taken
\* as it is.
appendTimeLogToLine(line, currentTime) ==
    LET match == matchTimeLogs(line)
    IN  IF match.index # -1
        THEN LET existingLogs == trim(match.inner)
             IN  SliceTo(line, match.index)
                 \o rebuiltMarker(newLogs(existingLogs, currentTime))
                 \o SliceFrom(line, match.end)
        ELSE IF findFirstInlineDataviewIndex(line) # -1
             THEN insertBeforeInlineDataview(line, timeLogEntry(currentTime))
             ELSE appendAtEnd(line, timeLogEntry(currentTime))

\* ------------------------------------------------------------------------
\* Auto-detection of a task's completion
\* ------------------------------------------------------------------------

\* The test without its last condition: a line that has a marker counts too.
isNewlyDoneWithMarker(before, after) ==
    /\ before # after
    /\ isUncheckedTaskLine(before)
    /\ isCheckedTaskLine(after)

\* The test of the loop's body: the line changed, from an unchecked task
\* line to a checked one that has no marker.
isNewlyDone(before, after) ==
    /\ before # after
    /\ isUncheckedTaskLine(before)
    /\ isCheckedTaskLine(after)
    /\ ~containsTimeLogs(after)

\* Math.min
min(a, b) == IF a < b THEN a ELSE b

\* currLines after the loop over i < minLen.
detectedLines(prevLines, currLines, currentTime) ==
    LET minLen == min(Len(prevLines), Len(currLines))
    IN  [ i \in 1..Len(currLines) |->
            IF i <= minLen /\ isNewlyDone(prevLines[i], currLines[i])
            THEN appendTimeLogToLine(currLines[i], currentTime)
            ELSE currLines[i] ]

addTimeLogForDoneTasks(previousContent, newContent, currentTime) ==
    LET prevLines == splitLines(previousContent)
        currLines == splitLines(newContent)
        minLen    == min(Len(prevLines), Len(currLines))
        changed   == \E i \in 1..minLen : isNewlyDone(prevLines[i], currLines[i])
    IN  IF changed
        THEN join(detectedLines(prevLines, currLines, currentTime), <<"\n">>)
        ELSE newContent

\* ------------------------------------------------------------------------
\* The range parser
\* ------------------------------------------------------------------------

\* \d{4}-\d{2}-\d{2} at the 0-based offset i of s.
DateAtOffset(s, i) ==
    /\ i + 10 <= Len(s)
    /\ \A k \in {1, 2, 3, 4, 6, 7, 9, 10} : s[i + k] \in Digits
    /\ s[i + 5] = "-"
    /\ s[i + 8] = "-"

\* The whole of s matches \d{2}:\d{2}(?::\d{2})?
IsTime(s) ==
    /\ Len(s) \in {5, 8}
    /\ \A k \in {1, 2, 4, 5} : s[k] \in Digits
    /\ s[3] = ":"
    /\ Len(s) = 8 => (s[6] = ":" /\ s[7] \in Digits /\ s[8] \in Digits)

\* A time left without seconds.
ensureSecondsOmitted(time) == time

ensureSeconds(time) == IF Len(time) = 5 THEN time \o <<":", "0", "0">> ELSE time

parseFromTo(timeLog) ==
    LET trimmed == trim(timeLog)
    IN  IF ~DateAtOffset(trimmed, 0) THEN [from |-> <<>>, to |-> <<>>]
        ELSE
        LET date == SliceTo(trimmed, 10)
            rest == trim(SliceFrom(trimmed, Len(date)))
            n    == Len(rest)
            stamp(time) == date \o <<" ">> \o ensureSeconds(time)
        IN  \* 1) /^-(\d{2}:\d{2}(?::\d{2})?)$/
            IF n >= 1 /\ rest[1] = "-" /\ IsTime(SliceFrom(rest, 1))
            THEN [from |-> <<>>, to |-> stamp(SliceFrom(rest, 1))]
            \* 2) /^(\d{2}:\d{2}(?::\d{2})?)-$/
            ELSE IF n >= 1 /\ rest[n] = "-" /\ IsTime(SliceTo(rest, n - 1))
            THEN [from |-> stamp(SliceTo(rest, n - 1)), to |-> <<>>]
            \* 3) /^(\d{2}:\d{2}(?::\d{2})?)-(\d{2}:\d{2}(?::\d{2})?)$/
            ELSE IF \E k \in {5, 8} :
                       /\ k < n
                       /\ IsTime(SliceTo(rest, k))
                       /\ rest[k + 1] = "-"
                       /\ IsTime(SliceFrom(rest, k + 1))
            THEN LET k == CHOOSE k \in {5, 8} :
                             /\ k < n
                             /\ IsTime(SliceTo(rest, k))
                             /\ rest[k + 1] = "-"
                             /\ IsTime(SliceFrom(rest, k + 1))
                 IN  [from |-> stamp(SliceTo(rest, k)), to |-> stamp(SliceFrom(rest, k + 1))]
            \* fallback: /^(\d{2}:\d{2}(?::\d{2})?)$/
            ELSE IF IsTime(rest)
            THEN [from |-> <<>>, to |-> stamp(rest)]
            ELSE [from |-> <<>>, to |-> <<>>]

\* ------------------------------------------------------------------------
\* The corpus extractor
\* ------------------------------------------------------------------------

\* \w of a regular expression, restricted to the characters of the model.
WordChars ==
    Digits \cup {"_", "a", "b", "c", "d", "e", "f", "g", "h", "i", "j", "k", "l", "m",
                 "n", "o", "p", "q", "r", "s", "t", "u", "v", "w", "x", "y", "z", "W", "X"}

\* dateRegex.test(s) for /\b\d{4}-\d{2}-\d{2}\b/: a date with no word
\* character right before or right after it.
dateRegexTest(s) ==
    \E i \in 0..(Len(s) - 10) :
        /\ DateAtOffset(s, i)
        /\ i > 0 => s[i] \notin WordChars
        /\ i + 10 < Len(s) => s[i + 11] \notin WordChars

\* "- [ ]", "- [x]", "- [X]"
UncheckedPrefix == <<"-", " ", "[", " ", "]">>
CheckedPrefixes == {<<"-", " ", "[", "x", "]">>, <<"-", " ", "[", "X", "]">>}

normalizeTaskText(text) ==
    LET step1 == IF StartsWithAt(text, 0, UncheckedPrefix)
                 THEN trim(SliceFrom(text, 5)) ELSE text
    IN  IF \E pre \in CheckedPrefixes : StartsWithAt(step1, 0, pre)
        THEN trim(SliceFrom(step1, 5)) ELSE step1

\* a.filter(s => s.length > 0)
RECURSIVE dropEmpty(_)
dropEmpty(parts) ==
    IF parts = <<>> THEN <<>>
    ELSE IF Head(parts) = <<>> THEN dropEmpty(Tail(parts))
    ELSE <<Head(parts)>> \o dropEmpty(Tail(parts))

\* timeLogsRaw.split(';').map(s => s.trim()).filter(s => s.length > 0)
splitTimeLogs(timeLogsRaw) ==
    LET pieces == split(timeLogsRaw, ";")
    IN  dropEmpty([k \in 1..Len(pieces) |-> trim(pieces[k])])

\* The rows one entry pushes: the entry is parsed when it passes the date
\* pre-filter, and what the parser returns is pushed as it is.
rowsOfEntry(timeLog, taskText, path, lineNo) ==
    IF ~dateRegexTest(timeLog) THEN <<>>
    ELSE LET parsed == parseFromTo(timeLog)
         IN  << [ task |-> taskText, from |-> parsed.from, to |-> parsed.to,
                  file |-> path, line |-> lineNo ] >>

RECURSIVE rowsOfEntries(_, _, _, _)
rowsOfEntries(timeLogs, taskText, path, lineNo) ==
    IF timeLogs = <<>> THEN <<>>
    ELSE rowsOfEntry(Head(timeLogs), taskText, path, lineNo)
         \o rowsOfEntries(Tail(timeLogs), taskText, path, lineNo)

\* The rows of line i (0-based) of a file.
rowsOfLine(line, path, i) ==
    LET match == matchTimeLogs(line)
    IN  IF match.index = -1 THEN <<>>
        ELSE LET timeLogsRaw == trim(match.inner)
             IN  IF timeLogsRaw = <<>> THEN <<>>
                 ELSE LET taskTextRaw == trim(SliceTo(line, match.index)
                                              \o SliceFrom(line, match.end))
                      IN  rowsOfEntries(splitTimeLogs(timeLogsRaw),
                                        normalizeTaskText(taskTextRaw), path, i + 1)

\* The rows of the lines i.. of a file.
RECURSIVE rowsOfLines(_, _, _)
rowsOfLines(lines, path, i) ==
    IF i >= Len(lines) THEN <<>>
    ELSE rowsOfLine(lines[i + 1], path, i) \o rowsOfLines(lines, path, i + 1)

\* The rows of the files, in the order of markdownFiles.
RECURSIVE rowsOfFiles(_, _)
rowsOfFiles(markdownFiles, contentOf) ==
    IF markdownFiles = <<>> THEN <<>>
    ELSE rowsOfLines(splitLines(contentOf[Head(markdownFiles)]), Head(markdownFiles), 0)
         \o rowsOfFiles(Tail(markdownFiles), contentOf)

\* The collation rank of the characters of a sort key: white space, then
\* punctuation, then digits.
CollationRank(c) ==
    CASE c = " " -> 0
      [] c = "-" -> 1
      [] c = ":" -> 2
      [] OTHER   -> 3 + (CHOOSE d \in 0..9 : DigitChars[d + 1] = c)

\* a.localeCompare(b) on sort keys: negative, zero or positive.
RECURSIVE localeCompare(_, _)
localeCompare(a, b) ==
    IF a = <<>> /\ b = <<>> THEN 0
    ELSE IF a = <<>> THEN -1
    ELSE IF b = <<>> THEN 1
    ELSE IF Head(a) = Head(b) THEN localeCompare(Tail(a), Tail(b))
    ELSE IF CollationRank(Head(a)) < CollationRank(Head(b)) THEN -1 ELSE 1

\* a.from || a.to || ''
sortKey(row) == IF row.from # <<>> THEN row.from ELSE row.to

\* The comparator of rows.sort
compareRows(a, b) == localeCompare(sortKey(a), sortKey(b))

\* A row put into a sorted array in front of the rows that compare equal to
\* it: an unstable sort.
insertRowUnstable(sorted, row) ==
    LET notLess == {k \in 1..Len(sorted) : compareRows(sorted[k], row) >= 0}
        at      == IF notLess = {} THEN Len(sorted) + 1
                   ELSE CHOOSE k \in notLess : \A m \in notLess : k <= m
    IN  SubSeq(sorted, 1, at - 1) \o <<row>> \o SubSeq(sorted, at, Len(sorted))

\* A row put into a sorted array behind every row that does not compare
\* greater than it.
insertRow(sorted, row) ==
    LET greater == {k \in 1..Len(sorted) : compareRows(sorted[k], row) > 0}
        at      == IF greater = {} THEN Len(sorted) + 1
                   ELSE CHOOSE k \in greater : \A m \in greater : k <= m
    IN  SubSeq(sorted, 1, at - 1) \o <<row>> \o SubSeq(sorted, at, Len(sorted))

\* Array.prototype.sort with compareRows: the sort is stable (ECMAScript 2019).
RECURSIVE sortRows(_)
sortRows(rows) ==
    IF rows = <<>> THEN <<>>
    ELSE insertRow(sortRows(SubSeq(rows, 1, Len(rows) - 1)), rows[Len(rows)])

collectTimeLogRows(markdownFiles, contentOf) ==
    sortRows(rowsOfFiles(markdownFiles, contentOf))

\* ------------------------------------------------------------------------
\* The plugin as a state machine
\* ------------------------------------------------------------------------

\* The markdown files of the vault, in the order getMarkdownFiles lists them.
Paths == <<"A.md", "B.md">>
PathSet == {Paths[k] : k \in 1..Len(Paths)}

\* The path of a handler that is not running.
NoPath == "none"

\* A Map or an object with no entry.
Empty == [k \in {} |-> <<>>]

\* What loadData resolves to when nothing was ever saved.
NoData == Empty

DEFAULT_SETTINGS == [autoLogOnTaskDone |-> TRUE]

\* Object.assign({}, DEFAULT_SETTINGS, await this.loadData())
loadSettings(data) ==
    [k \in DOMAIN DEFAULT_SETTINGS |-> IF k \in DOMAIN data THEN data[k] ELSE DEFAULT_SETTINGS[k]]

\* A handler of the vault's 'modify' event that is not running. entryBefore
\* is history: the cache's entry for the path at the moment the event was
\* delivered, <<content>>, or <<>> when there was none.
IdleHandler ==
    [pc |-> "idle", path |-> NoPath, newContent |-> <<>>, maybeUpdated |-> <<>>,
     entryBefore |-> <<>>]

VARIABLES
    phase,                    \* "constructed", "caching" (onload awaits initializeFileContentCache), "loaded"
    settings,                 \* this.settings
    savedData,                \* what saveData stored (loadData returns it)
    files,                    \* the vault: the content of each markdown file it has
    previousContentByPath,    \* the Map, as a function on the paths it has
    programmaticUpdatePaths,  \* the Set
    cacheQueue,               \* the files initializeFileContentCache has still to read
    pending,                  \* path -> the number of 'modify' events fired and not yet delivered
    handlers,                 \* the runs of the 'modify' listener, each at its await
    clock,                    \* the wall clock, in ticks (one tick passes with every user action)
    userEdits,                \* history: the number of user edits
    checkEdits,               \* history: user edits that checked an unchecked task line without marker
    writeBacks,               \* history: the number of write-backs (vault.modify of the listener) that wrote
    editorLine,               \* the editor's current line (the "Add time log" command)
    editorLine0,              \* history: that line before the first command
    stamps,                   \* history: the timestamps the commands appended, in call order
    diffPrev, diffNew,        \* the arguments of addTimeLogForDoneTasks
    diffOut,                  \* its result
    rows,                     \* what collectTimeLogRows returned
    entry,                    \* the argument of parseFromTo
    parsed,                   \* its result
    ran                       \* whether the function under study has run

pluginVars == <<phase, settings, savedData, files, previousContentByPath,
                programmaticUpdatePaths, cacheQueue, pending, handlers,
                userEdits, checkEdits, writeBacks>>
editorVars == <<editorLine, editorLine0, stamps>>
diffVars   == <<diffPrev, diffNew, diffOut>>
parseVars  == <<entry, parsed>>
vars == <<pluginVars, clock, editorVars, diffVars, rows, parseVars, ran>>

\* Bounds of the plugin's state machine.
MaxHandlers  == 2
MaxUserEdits == 2

\* this.app.vault.getMarkdownFiles()
RECURSIVE existing(_, _)
existing(paths, vault) ==
    IF paths = <<>> THEN <<>>
    ELSE IF Head(paths) \notin DOMAIN vault THEN existing(Tail(paths), vault)
    ELSE <<Head(paths)>> \o existing(Tail(paths), vault)

getMarkdownFiles == existing(Paths, files)

\* Map.prototype.set
MapSet(map, key, value) ==
    [k \in DOMAIN map \cup {key} |-> IF k = key THEN value ELSE map[k]]

\* "- [ ] a\n- [ ] b", "- [x] a\n- [ ] b", "- [ ] c"
DocTwoOpen   == <<"-"," ","["," ","]"," ","a","\n","-"," ","["," ","]"," ","b">>
DocOneDone   == <<"-"," ","[","x","]"," ","a","\n","-"," ","["," ","]"," ","b">>
DocOther     == <<"-"," ","["," ","]"," ","c">>

InitialDocsA == {DocTwoOpen, DocOneDone}
InitialDocsB == {DocOther}

EditorIdle == editorLine = <<>> /\ editorLine0 = <<>> /\ stamps = <<>>
DiffIdle   == diffPrev = <<>> /\ diffNew = <<>> /\ diffOut = <<>>
ParseIdle  == entry = <<>> /\ parsed = [from |-> <<>>, to |-> <<>>]

\* The state after construction: the fields' initialisers have run, onload
\* has not.
Init ==
    /\ phase = "constructed"
    /\ settings = Empty
    /\ savedData \in {NoData, [autoLogOnTaskDone |-> TRUE], [autoLogOnTaskDone |-> FALSE]}
    /\ \E a \in InitialDocsA :
          \/ files = [p \in {"A.md"} |-> a]
          \/ \E b \in InitialDocsB : files = [p \in PathSet |-> IF p = "A.md" THEN a ELSE b]
    /\ previousContentByPath = Empty
    /\ programmaticUpdatePaths = {}
    /\ cacheQueue = <<>>
    /\ pending = [p \in PathSet |-> 0]
    /\ handlers = [h \in 1..MaxHandlers |-> IdleHandler]
    /\ clock = 0
    /\ userEdits = 0 /\ checkEdits = 0 /\ writeBacks = 0
    /\ EditorIdle /\ DiffIdle /\ ParseIdle
    /\ rows = <<>>
    /\ ran = FALSE

\* onload up to its first await of initializeFileContentCache: the settings
\* are loaded; with auto-log enabled the files to cache are listed, otherwise
\* the listener is registered at once.
OnLoad ==
    /\ phase = "constructed"
    /\ settings' = loadSettings(savedData)
    /\ IF settings'.autoLogOnTaskDone
       THEN phase' = "caching" /\ cacheQueue' = getMarkdownFiles
       ELSE phase' = "loaded" /\ cacheQueue' = <<>>
    /\ UNCHANGED <<savedData, files, previousContentByPath, programmaticUpdatePaths,
                   pending, handlers, userEdits, checkEdits, writeBacks>>
    /\ UNCHANGED <<clock, editorVars, diffVars, rows, parseVars, ran>>

\* initializeFileContentCache: one vault.read and one Map.set per file.
CacheNextFile ==
    /\ phase = "caching"
    /\ cacheQueue # <<>>
    /\ previousContentByPath' =
          MapSet(previousContentByPath, Head(cacheQueue), files[Head(cacheQueue)])
    /\ cacheQueue' = Tail(cacheQueue)
    /\ UNCHANGED <<phase, settings, savedData, files, programmaticUpdatePaths,
                   pending, handlers, userEdits, checkEdits, writeBacks>>
    /\ UNCHANGED <<clock, editorVars, diffVars, rows, parseVars, ran>>

\* The cache is filled: onload registers the 'modify' listener.
RegisterListener ==
    /\ phase = "caching"
    /\ cacheQueue = <<>>
    /\ phase' = "loaded"
    /\ UNCHANGED <<settings, savedData, files, previousContentByPath,
                   programmaticUpdatePaths, cacheQueue, pending, handlers,
                   userEdits, checkEdits, writeBacks>>
    /\ UNCHANGED <<clock, editorVars, diffVars, rows, parseVars, ran>>

\* The toggle of the settings tab: onChange sets the setting and saves it.
ToggleAutoLog(value) ==
    /\ phase = "loaded"
    /\ settings.autoLogOnTaskDone # value
    /\ settings' = [settings EXCEPT !.autoLogOnTaskDone = value]
    /\ savedData' = settings'
    /\ UNCHANGED <<phase, files, previousContentByPath, programmaticUpdatePaths,
                   cacheQueue, pending, handlers, userEdits, checkEdits, writeBacks>>
    /\ UNCHANGED <<clock, editorVars, diffVars, rows, parseVars, ran>>

\* A task line as the user's click on its checkbox leaves it: "[ ]" becomes
\* "[x]" and "[x]" becomes "[ ]".
IsCheckbox(line) ==
    /\ Len(line) >= 5
    /\ SubSeq(line, 1, 3) = <<"-", " ", "[">>
    /\ line[4] \in {" ", "x"}
    /\ line[5] = "]"

clickCheckbox(line) == [line EXCEPT ![4] = IF @ = " " THEN "x" ELSE " "]

\* The vault fires 'modify' for path p; the event waits to be delivered.
\* Before onload has registered the listener nobody receives it.
fired(p) ==
    IF phase = "loaded"
    THEN [pending EXCEPT ![p] = @ + 1]
    ELSE pending

\* The user clicks the checkbox of line i of file p and the editor saves the
\* file.
UserEdit(p, i) ==
    /\ p \in DOMAIN files
    /\ userEdits < MaxUserEdits
    /\ LET lines == splitLines(files[p])
       IN  /\ i \in 1..Len(lines)
           /\ IsCheckbox(lines[i])
           /\ files' = [files EXCEPT ![p] =
                           join([lines EXCEPT ![i] = clickCheckbox(lines[i])], <<"\n">>)]
           /\ checkEdits' = IF /\ isUncheckedTaskLine(lines[i])
                               /\ ~containsTimeLogs(lines[i])
                            THEN checkEdits + 1 ELSE checkEdits
    /\ userEdits' = userEdits + 1
    /\ clock' = clock + 1
    /\ pending' = fired(p)
    /\ UNCHANGED <<phase, settings, savedData, previousContentByPath,
                   programmaticUpdatePaths, cacheQueue, handlers, writeBacks>>
    /\ UNCHANGED <<editorVars, diffVars, rows, parseVars, ran>>

\* The user creates file p. The vault fires 'create', which the plugin does
\* not listen to.
CreateFile(p) ==
    /\ p \notin DOMAIN files
    /\ \E content \in InitialDocsB : files' = MapSet(files, p, content)
    /\ UNCHANGED <<phase, settings, savedData, previousContentByPath,
                   programmaticUpdatePaths, cacheQueue, pending, handlers,
                   userEdits, checkEdits, writeBacks>>
    /\ UNCHANGED <<clock, editorVars, diffVars, rows, parseVars, ran>>

IdleHandlers == {h \in 1..MaxHandlers : handlers[h].pc = "idle"}

\* The 'modify' listener up to its first await: it returns when auto-log is
\* disabled or the path is marked as written by the plugin, and otherwise
\* calls vault.read and awaits it. The event emitter does not await the
\* listener, so that a run may start while earlier ones are at an await.
OnModify(p) ==
    /\ phase = "loaded"
    /\ pending[p] > 0
    /\ pending' = [pending EXCEPT ![p] = @ - 1]
    /\ IF ~settings.autoLogOnTaskDone \/ p \in programmaticUpdatePaths
       THEN handlers' = handlers
       ELSE /\ IdleHandlers # {}
            /\ LET h == CHOOSE h \in IdleHandlers : \A g \in IdleHandlers : h <= g
               IN  handlers' = [handlers EXCEPT ![h] =
                                   [IdleHandler EXCEPT
                                       !.pc = "read", !.path = p,
                                       !.entryBefore =
                                           IF p \in DOMAIN previousContentByPath
                                           THEN <<previousContentByPath[p]>> ELSE <<>>]]
    /\ UNCHANGED <<phase, settings, savedData, files, previousContentByPath,
                   programmaticUpdatePaths, cacheQueue, userEdits, checkEdits, writeBacks>>
    /\ UNCHANGED <<clock, editorVars, diffVars, rows, parseVars, ran>>

\* vault.read resolves with the file's content and the listener runs on to
\* its end or to its await of vault.modify.
HandlerRead(h) ==
    /\ handlers[h].pc = "read"
    /\ LET path        == handlers[h].path
           newContent  == files[path]
       IN  IF path \notin DOMAIN previousContentByPath
           THEN /\ previousContentByPath' = MapSet(previousContentByPath, path, newContent)
                /\ handlers' = [handlers EXCEPT ![h] = IdleHandler]
                /\ UNCHANGED <<programmaticUpdatePaths, writeBacks>>
           ELSE LET prevContent  == previousContentByPath[path]
                    maybeUpdated == addTimeLogForDoneTasks(prevContent, newContent,
                                                           getCurrentFormattedTime(clock))
                IN  IF maybeUpdated # newContent
                    THEN /\ programmaticUpdatePaths' = programmaticUpdatePaths \cup {path}
                         /\ handlers' = [handlers EXCEPT ![h].pc = "modify",
                                                         ![h].newContent = newContent,
                                                         ![h].maybeUpdated = maybeUpdated]
                         /\ UNCHANGED <<previousContentByPath, writeBacks>>
                    ELSE /\ previousContentByPath' = MapSet(previousContentByPath, path, newContent)
                         /\ handlers' = [handlers EXCEPT ![h] = IdleHandler]
                         /\ UNCHANGED <<programmaticUpdatePaths, writeBacks>>
    /\ UNCHANGED <<phase, settings, savedData, files, cacheQueue, pending,
                   userEdits, checkEdits>>
    /\ UNCHANGED <<clock, editorVars, diffVars, rows, parseVars, ran>>

\* vault.modify writes the file; the vault fires 'modify' for it.
HandlerWrite(h) ==
    /\ handlers[h].pc = "modify"
    /\ files' = [files EXCEPT ![handlers[h].path] = handlers[h].maybeUpdated]
    /\ pending' = fired(handlers[h].path)
    /\ handlers' = [handlers EXCEPT ![h].pc = "written"]
    /\ writeBacks' = writeBacks + 1
    /\ UNCHANGED <<phase, settings, savedData, previousContentByPath,
                   programmaticUpdatePaths, cacheQueue, userEdits, checkEdits>>
    /\ UNCHANGED <<clock, editorVars, diffVars, rows, parseVars, ran>>

\* vault.modify resolves: the cache takes the written content, and the
\* finally block removes the mark.
HandlerWritten(h) ==
    /\ handlers[h].pc = "written"
    /\ previousContentByPath' =
          MapSet(previousContentByPath, handlers[h].path, handlers[h].maybeUpdated)
    /\ programmaticUpdatePaths' = programmaticUpdatePaths \ {handlers[h].path}
    /\ handlers' = [handlers EXCEPT ![h] = IdleHandler]
    /\ UNCHANGED <<phase, settings, savedData, files, cacheQueue, pending,
                   userEdits, checkEdits, writeBacks>>
    /\ UNCHANGED <<clock, editorVars, diffVars, rows, parseVars, ran>>

\* vault.modify rejects before it wrote: the finally block removes the mark
\* and the listener's promise rejects.
HandlerWriteFails(h) ==
    /\ handlers[h].pc = "modify"
    /\ programmaticUpdatePaths' = programmaticUpdatePaths \ {handlers[h].path}
    /\ handlers' = [handlers EXCEPT ![h] = IdleHandler]
    /\ UNCHANGED <<phase, settings, savedData, files, previousContentByPath,
                   cacheQueue, pending, userEdits, checkEdits, writeBacks>>
    /\ UNCHANGED <<clock, editorVars, diffVars, rows, parseVars, ran>>

Next ==
    \/ OnLoad
    \/ CacheNextFile
    \/ RegisterListener
    \/ \E value \in BOOLEAN : ToggleAutoLog(value)
    \/ \E p \in PathSet, i \in 1..2 : UserEdit(p, i)
    \/ \E p \in PathSet : CreateFile(p)
    \/ \E p \in PathSet : OnModify(p)
    \/ \E h \in 1..MaxHandlers : HandlerRead(h)
    \/ \E h \in 1..MaxHandlers : HandlerWrite(h)
    \/ \E h \in 1..MaxHandlers : HandlerWritten(h)
    \/ \E h \in 1..MaxHandlers : HandlerWriteFails(h)

Spec == Init /\ [][Next]_vars

\* ------------------------------------------------------------------------
\* The plugin with auto-detection enabled throughout and notifications
\* delivered one at a time per document
\* ------------------------------------------------------------------------

\* No run of the listener for path p is between its delivery and the end of
\* its await of vault.read.
NoRunReading(p) ==
    \A h \in 1..MaxHandlers : handlers[h].path = p => handlers[h].pc # "read"

\* The saved settings leave auto-detection enabled.
InitSerial == Init /\ loadSettings(savedData).autoLogOnTaskDone

\* The host delivers a 'modify' event for a document only when the run for
\* the document's previous event has got past its read (the event of the
\* plugin's own write arrives during the run's write-back, lines 69-73).
DeliverModify(p) == NoRunReading(p) /\ OnModify(p)

\* The setting is not toggled, and vault.modify does not fail.
NextSerial ==
    \/ OnLoad
    \/ CacheNextFile
    \/ RegisterListener
    \/ \E p \in PathSet, i \in 1..2 : UserEdit(p, i)
    \/ \E p \in PathSet : CreateFile(p)
    \/ \E p \in PathSet : DeliverModify(p)
    \/ \E h \in 1..MaxHandlers : HandlerRead(h)
    \/ \E h \in 1..MaxHandlers : HandlerWrite(h)
    \/ \E h \in 1..MaxHandlers : HandlerWritten(h)

SpecSerial == InitSerial /\ [][NextSerial]_vars

\* No run of the listener for path p is under way and no 'modify' event for
\* it waits to be delivered.
Quiet(p) ==
    /\ phase = "loaded"
    /\ pending[p] = 0
    /\ \A h \in 1..MaxHandlers : handlers[h].path # p

\* C14: with auto-detection enabled throughout and notifications delivered
\* one at a time per document, whenever no handler is in flight for a cached
\* document, its previousContentByPath entry is the document's current
\* content, whatever the interleaving of user edits and handler steps.
C14_CacheIsCurrent ==
    \A p \in DOMAIN previousContentByPath :
        Quiet(p) => previousContentByPath[p] = files[p]

\* ------------------------------------------------------------------------
\* The 'modify' listener: the self-authored mark
\* ------------------------------------------------------------------------

\* The runs of the listener whose vault.modify of path p is in flight.
WritingHandlers(p) ==
    {h \in 1..MaxHandlers : handlers[h].path = p /\ handlers[h].pc \in {"modify", "written"}}

\* The path of every write-back in flight is marked.
MarkedWhileWriting ==
    \A p \in PathSet : WritingHandlers(p) # {} => p \in programmaticUpdatePaths

\* A 'modify' event for a marked path is ignored: no run of the listener
\* starts, nothing is written, the cache and the marks stay as they are.
MarkedEventIgnored ==
    \A p \in PathSet :
        (OnModify(p) /\ p \in programmaticUpdatePaths)
            => UNCHANGED <<files, previousContentByPath, programmaticUpdatePaths,
                           handlers, writeBacks>>

\* C1: a document's path is in programmaticUpdatePaths for the whole
\* duration of the plugin's write-back of that document, and every modify
\* notification for a document whose path is in programmaticUpdatePaths is
\* ignored: no write, previousContentByPath and programmaticUpdatePaths
\* unchanged.
C1_SelfAuthoredMark == []MarkedWhileWriting /\ [][MarkedEventIgnored]_vars

\* ------------------------------------------------------------------------
\* The cache of previous contents
\* ------------------------------------------------------------------------

\* No run of the 'modify' listener is under way, and onload has returned.
NoHandlerMidRun ==
    /\ phase = "loaded"
    /\ \A h \in 1..MaxHandlers : handlers[h].pc = "idle"

\* C7: whenever auto-detection is enabled and no handler is mid-run,
\* previousContentByPath has an entry for every markdown file of the vault,
\* also when the setting was off at load and switched on in the settings
\* tab, and for files created after load.
C7_CacheCoversVault ==
    (NoHandlerMidRun /\ settings.autoLogOnTaskDone)
        => \A p \in DOMAIN files : p \in DOMAIN previousContentByPath

\* Auto-detection is disabled: the settings are loaded and the setting is off.
AutoLogDisabled == phase # "constructed" /\ ~settings.autoLogOnTaskDone

\* While auto-detection is disabled the cache is empty.
DisabledCacheEmpty == AutoLogDisabled => previousContentByPath = Empty

\* A 'modify' event delivered while auto-detection is disabled starts no run
\* of the listener (so nothing is read), writes nothing and leaves the cache
\* and the marks as they are.
DisabledEventIgnored ==
    \A p \in PathSet :
        (OnModify(p) /\ AutoLogDisabled)
            => UNCHANGED <<files, previousContentByPath, programmaticUpdatePaths,
                           handlers, writeBacks>>

\* C12: in every reachable state in which auto-detection is disabled, also
\* after it was enabled and then switched off, previousContentByPath has no
\* entries, and a modify notification handled in that state reads no
\* document, writes nothing and adds no cache entry.
C12_DisabledNoCache == []DisabledCacheEmpty /\ [][DisabledEventIgnored]_vars

\* ------------------------------------------------------------------------
\* The 'modify' listener: a write-back that fails
\* ------------------------------------------------------------------------

\* A failing vault.modify leaves the path unmarked and the cache's entry for
\* it as it was before the notification: it is not the content that failed
\* to be written.
WriteFailureKeepsCache ==
    \A h \in 1..MaxHandlers :
        HandlerWriteFails(h)
            => LET path == handlers[h].path
               IN  /\ path \notin programmaticUpdatePaths'
                   /\ path \in DOMAIN previousContentByPath'
                   /\ <<previousContentByPath'[path]>> = handlers[h].entryBefore
                   /\ previousContentByPath'[path] # handlers[h].maybeUpdated

\* A path without write-back in flight is not marked.
UnmarkedWhenNotWriting ==
    \A p \in PathSet : WritingHandlers(p) = {} => p \notin programmaticUpdatePaths

\* C13: when the listener's write-back (vault.modify) fails, the path is
\* removed from programmaticUpdatePaths and its previousContentByPath entry
\* is what it was before the notification, not the content that failed to be
\* written; and in every state a path without write-back in flight is not in
\* programmaticUpdatePaths.
C13_WriteFailure == []UnmarkedWhenNotWriting /\ [][WriteFailureKeepsCache]_vars

\* ------------------------------------------------------------------------
\* The 'modify' listener: one write-back and one entry per completed task
\* ------------------------------------------------------------------------

\* The entries of a line's marker, as the extractor splits them.
entriesOf(line) ==
    LET match == matchTimeLogs(line)
    IN  IF match.index = -1 THEN <<>> ELSE splitTimeLogs(trim(match.inner))

\* No line of the vault holds more than one entry.
AtMostOneEntryPerLine ==
    \A p \in DOMAIN files :
        LET lines == splitLines(files[p])
        IN  \A i \in 1..Len(lines) : Len(entriesOf(lines[i])) <= 1

\* C2: a user edit that turns an unchecked task line without marker into a
\* checked one causes at most one write-back, and the line gets a marker
\* with exactly one entry: neither the notification of the plugin's own
\* write-back nor a re-run on the logged content writes again or adds a
\* second timestamp.
C2_OneWriteBackPerCheck ==
    /\ writeBacks <= checkEdits
    /\ AtMostOneEntryPerLine

\* ------------------------------------------------------------------------
\* The line mutator at work: the "Add time log" command on the editor's line
\* ------------------------------------------------------------------------

\* The plugin's own state while a function is studied alone.
PluginIdle ==
    /\ phase = "constructed"
    /\ settings = Empty
    /\ savedData = NoData
    /\ previousContentByPath = Empty
    /\ programmaticUpdatePaths = {}
    /\ cacheQueue = <<>>
    /\ pending = [p \in PathSet |-> 0]
    /\ handlers = [h \in 1..MaxHandlers |-> IdleHandler]
    /\ userEdits = 0 /\ checkEdits = 0 /\ writeBacks = 0

\* The lines the editor's cursor may be on:
\*   "- [ ] Write report", "", "a ", "- [x] a [k:: v]", "a[k::v] z",
\*   "[k:: v]", "a<TAB>[k :: v] [j::w]",
\*   "a [time-logs:: b"        (an open token that is never closed),
\*   "[k:: v] [time-logs:: b"  (the same behind an inline field),
\*   "a [time-logs:: ] z"      (an empty marker),
\*   "a [time-logs:: $& ]"     (a marker whose text is a replacement pattern)
EditorLines ==
    { <<"-"," ","["," ","]"," ","W","r","i","t","e"," ","r","e","p","o","r","t">>,
      <<>>,
      <<"a"," ">>,
      <<"-"," ","[","x","]"," ","a"," ","[","k",":",":"," ","v","]">>,
      <<"a","[","k",":",":","v","]"," ","z">>,
      <<"[","k",":",":"," ","v","]">>,
      <<"a","\t","[","k"," ",":",":"," ","v","]"," ","[","j",":",":","w","]">>,
      <<"a"," ","[","t","i","m","e","-","l","o","g","s",":",":"," ","b">>,
      <<"[","k",":",":"," ","v","]"," ","[","t","i","m","e","-","l","o","g","s",":",":"," ","b">>,
      <<"a"," ","[","t","i","m","e","-","l","o","g","s",":",":"," ","]"," ","z">>,
      <<"a"," ","[","t","i","m","e","-","l","o","g","s",":",":"," ","$","&"," ","]">> }

InitEditor ==
    /\ PluginIdle
    /\ files = Empty
    /\ clock = 0
    /\ editorLine \in EditorLines
    /\ editorLine0 = editorLine
    /\ stamps = <<>>
    /\ DiffIdle /\ ParseIdle
    /\ rows = <<>>
    /\ ran = FALSE

\* The "Add time log" command: addTimeLog reads the line at the cursor and
\* sets it anew.
AddTimeLogCommand ==
    /\ Len(stamps) < MaxAppends
    /\ editorLine' = addTimeLog(editorLine, getCurrentFormattedTime(clock))
    /\ stamps' = Append(stamps, getCurrentFormattedTime(clock))
    /\ UNCHANGED <<pluginVars, clock, editorLine0, diffVars, rows, parseVars, ran>>

\* The mutation as the 'modify' listener applies it to a line.
AppendTimeLogToLine ==
    /\ Len(stamps) < MaxAppends
    /\ editorLine' = appendTimeLogToLine(editorLine, getCurrentFormattedTime(clock))
    /\ stamps' = Append(stamps, getCurrentFormattedTime(clock))
    /\ UNCHANGED <<pluginVars, clock, editorLine0, diffVars, rows, parseVars, ran>>

\* Time passes between two mutations.
EditorTick ==
    /\ clock < MaxTicks
    /\ clock' = clock + 1
    /\ UNCHANGED <<pluginVars, editorVars, diffVars, rows, parseVars, ran>>

NextEditor == AddTimeLogCommand \/ AppendTimeLogToLine \/ EditorTick

SpecEditor == InitEditor /\ [][NextEditor]_vars

\* Whether the open token "[time-logs::" occurs in the line at all.
hasOpenToken(line) == \E i \in 0..(Len(line) - 1) : StartsWithAt(line, i, OpenToken)

\* The text of the line's marker, from its "[" to its "]".
markerText(line) ==
    LET match == matchTimeLogs(line)
    IN  SubSeq(line, match.index + 1, match.end)

\* "[time-logs:: e1; e2; ]": the open token, one space, every entry followed
\* by "; ", and "]".
RECURSIVE entriesText(_)
entriesText(entries) ==
    IF entries = <<>> THEN <<>>
    ELSE Head(entries) \o <<";", " ">> \o entriesText(Tail(entries))

documentedMarker(entries) == OpenToken \o <<" ">> \o entriesText(entries) \o <<"]">>

\* The line of the specification's scenario 2:
\* "- [ ] Write report [time-logs:: 2025-08-28 -14:32; 2025-08-28 -15:00; ]"
Scenario2Line ==
    <<"-"," ","["," ","]"," ","W","r","i","t","e"," ","r","e","p","o","r","t"," ","[","t","i","m","e","-","l","o","g","s",":",":"," ","2","0","2","5","-","0","8","-","2","8"," ","-","1","4",":","3","2",";"," ","2","0","2","5","-","0","8","-","2","8"," ","-","1","5",":","0","0",";"," ","]">>

\* C3: after k >= 1 mutations of a line that had no marker (and not even an
\* open token), the marker's text is "[time-logs:: e1; e2; ]" with the
\* timestamps in call order; "- [ ] Write report" mutated at 14:32 and at
\* 15:00 of 2025-08-28 is the line of scenario 2.
C3_MarkerFormat ==
    /\ (~hasOpenToken(editorLine0) /\ Len(stamps) >= 1)
          => /\ containsTimeLogs(editorLine)
             /\ markerText(editorLine) = documentedMarker(stamps)
    /\ (/\ editorLine0 = SubSeq(Scenario2Line, 1, 18)
        /\ stamps = <<getCurrentFormattedTime(0), getCurrentFormattedTime(1)>>)
          => editorLine = Scenario2Line

\* C4: after N appends to a line that had no marker, the marker's entries
\* (its inner text split at ";", trimmed, the empty pieces dropped) are the N
\* timestamps in call order.
C4_EntriesInCallOrder ==
    ~containsTimeLogs(editorLine0) => entriesOf(editorLine) = stamps

\* C4, for lines without open token: after N appends to a line in which
\* "[time-logs::" does not occur, the line has a marker (when N >= 1) whose
\* entries are the N timestamps in call order.
C4_EntriesInCallOrderNoOpenToken ==
    ~hasOpenToken(editorLine0)
        => /\ entriesOf(editorLine) = stamps
           /\ Len(stamps) >= 1 => containsTimeLogs(editorLine)

\* Two appends at different times to a line without open token that holds
\* an inline field.
C4_Witness ==
    /\ ~hasOpenToken(editorLine0)
    /\ findFirstInlineDataviewIndex(editorLine0) # -1
    /\ Len(stamps) >= 2
    /\ stamps[1] # stamps[2]

DetectLines ==
    { <<"-"," ","["," ","]"," ","a">>,
      <<"-"," ","[","x","]"," ","a">>,
      <<"-"," ","[","x","]"," ","a"," ","[","t","i","m","e","-","l","o","g","s",":",":"," ","2","0","2","5","-","0","8","-","2","8"," ","-","1","4",":","3","2",";"," ","]">>,
      <<" "," ","-"," ","["," ","X"," ","]"," ","a"," ","[","k",":",":"," ","v","]">> }

\* The sequences of 1..n elements of a set.
SeqsUpTo(set, n) == UNION {[1..k -> set] : k \in 1..n}

\* The line endings of a document: "\n" and "\r\n".
LineEndings == {<<"\n">>, <<"\r", "\n">>}

\* The documents of up to MaxDocLines lines, with either line ending.
DetectDocs ==
    {join(lines, eol) : lines \in SeqsUpTo(DetectLines, MaxDocLines), eol \in LineEndings}

InitDetect ==
    /\ PluginIdle
    /\ files = Empty
    /\ clock = 0
    /\ EditorIdle /\ ParseIdle
    /\ diffPrev \in DetectDocs
    /\ diffNew \in DetectDocs
    /\ diffOut = <<>>
    /\ rows = <<>>
    /\ ran = FALSE

\* maybeUpdated = this.addTimeLogForDoneTasks(prevContent, newContent)
Detect ==
    /\ ~ran
    /\ diffOut' = addTimeLogForDoneTasks(diffPrev, diffNew, getCurrentFormattedTime(clock))
    /\ ran' = TRUE
    /\ UNCHANGED <<pluginVars, clock, editorVars, diffPrev, diffNew, rows, parseVars>>

NextDetect == Detect

SpecDetect == InitDetect /\ [][NextDetect]_vars

\* Line i is one that may change: within the shorter line count, the
\* previous line an unchecked task line, the new line a checked task line
\* with no marker.
MayChange(prevLines, currLines, i) ==
    /\ i <= Len(prevLines)
    /\ i <= Len(currLines)
    /\ isUncheckedTaskLine(prevLines[i])
    /\ isCheckedTaskLine(currLines[i])
    /\ ~containsTimeLogs(currLines[i])

ExportLines ==
    { <<"-"," ","["," ","]"," ","-"," ","[","x","]"," ","t"," ","[","t","i","m","e","-","l","o","g","s",":",":"," ","2","0","2","5","-","0","1","-","0","3"," ","0","8",":","0","0","-",";"," ","]">>,
      <<"-"," ","["," ","]"," ","a"," ","[","t","i","m","e","-","l","o","g","s",":",":"," ","2","0","2","5","-","0","1","-","0","2"," ","1","0",":","0","0","-","1","1",":","0","0",";"," ","2","0","2","5","-","0","1","-","0","2"," ","1","0",":","0","0","-",";"," ","]">>,
      <<"-"," ","[","x","]"," ","b"," ","[","t","i","m","e","-","l","o","g","s",":",":"," ","2","0","2","5","-","0","1","-","0","1"," ","-","0","9",":","0","0",";"," ","2","0","2","5","-","0","1","-","0","2"," ","-","1","0",":","0","0",":","0","0",";"," ","]">>,
      <<"c"," ","[","t","i","m","e","-","l","o","g","s",":",":"," ","2","0","2","5","-","0","8","-","2","8"," ","0","9",":","0","0","-","1","0",":","3","0",";"," ","x",";"," ","2","0","2","5","-","0","8","-","2","8"," ","f",";"," ","]">>,
      <<"d"," ","[","t","i","m","e","-","l","o","g","s",":",":"," ","]">> }

ExportDocs == {join(lines, <<"\n">>) : lines \in SeqsUpTo(ExportLines, MaxExportLines)}

\* The vault holds A.md, of up to MaxExportLines lines, and may hold B.md, of
\* one line.
InitExport ==
    /\ PluginIdle
    /\ clock = 0
    /\ EditorIdle /\ DiffIdle /\ ParseIdle
    /\ \E a \in ExportDocs :
          \/ files = [p \in {"A.md"} |-> a]
          \/ \E b \in ExportLines : files = [p \in PathSet |-> IF p = "A.md" THEN a ELSE b]
    /\ rows = <<>>
    /\ ran = FALSE

\* The command's callback up to the rows it hands to createCsvContent. (The
\* CSV it then writes is no markdown file of the vault.)
ExportCommand ==
    /\ ~ran
    /\ rows' = collectTimeLogRows(getMarkdownFiles, files)
    /\ ran' = TRUE
    /\ UNCHANGED <<pluginVars, clock, editorVars, diffVars, parseVars>>

NextExport == ExportCommand

SpecExport == InitExport /\ [][NextExport]_vars

\* C5: every row of the output has a non-empty `from` or a non-empty `to`:
\* an entry that passes the date pre-filter and has none of the four time
\* shapes gives no row.
C5_RowsHaveFromOrTo ==
    ran => \A k \in 1..Len(rows) : rows[k].from # <<>> \/ rows[k].to # <<>>

\* The sort key as the specification words it: `from` if non-empty, else
\* `to`, else the empty string.
keyOf(row) ==
    IF row.from # <<>> THEN row.from ELSE IF row.to # <<>> THEN row.to ELSE <<>>

\* The code unit of a character of a sort key.
CodeUnit(c) ==
    CASE c = " " -> 32
      [] c = "-" -> 45
      [] c = ":" -> 58
      [] OTHER   -> 48 + (CHOOSE d \in 0..9 : DigitChars[d + 1] = c)

\* a < b in the plain lexicographic order of strings.
LexLess(a, b) ==
    \E k \in 1..Len(b) :
        /\ k <= Len(a) + 1
        /\ SubSeq(a, 1, k - 1) = SubSeq(b, 1, k - 1)
        /\ k = Len(a) + 1 \/ CodeUnit(a[k]) < CodeUnit(b[k])

\* The rows in discovery order: file by file, line by line, entry by entry.
Discovered == rowsOfFiles(getMarkdownFiles, files)

\* The place of discovered row i in a stable ascending sort: behind the rows
\* with a smaller key and the earlier rows with the same key.
StablePlace(d, i) ==
    1 + Cardinality({j \in 1..Len(d) : LexLess(keyOf(d[j]), keyOf(d[i]))})
      + Cardinality({j \in 1..(i - 1) : keyOf(d[j]) = keyOf(d[i])})

\* The index of a file in the order of the vault's listing.
FileIndex(path) == CHOOSE k \in 1..Len(Paths) : Paths[k] = path

\* C6: the rows are in ascending order of the sort key, and rows with equal
\* keys are in discovery order (document order, then line order, then entry
\* order within the marker).
C6_SortedAndStable ==
    ran => /\ Len(rows) = Len(Discovered)
           /\ \A k \in 1..(Len(rows) - 1) : ~LexLess(keyOf(rows[k + 1]), keyOf(rows[k]))
           /\ LET d == Discovered
              IN  \A i \in 1..Len(d) : rows[StablePlace(d, i)] = d[i]
           /\ \A k \in 1..(Len(rows) - 1) :
                 keyOf(rows[k]) = keyOf(rows[k + 1])
                    => \/ FileIndex(rows[k].file) < FileIndex(rows[k + 1].file)
                       \/ /\ rows[k].file = rows[k + 1].file
                          /\ rows[k].line <= rows[k + 1].line

\* An export in which a row of B.md precedes a row of A.md (its key is
\* smaller), and two rows of one marker have the same key and differ.
C6_Witness ==
    /\ ran
    /\ \E k \in 1..(Len(rows) - 1) :
          /\ rows[k].file = "B.md" /\ rows[k + 1].file = "A.md"
          /\ LexLess(keyOf(rows[k]), keyOf(rows[k + 1]))
    /\ \E k \in 1..(Len(rows) - 1) :
          /\ keyOf(rows[k]) = keyOf(rows[k + 1])
          /\ rows[k].file = rows[k + 1].file /\ rows[k].line = rows[k + 1].line
          /\ rows[k] # rows[k + 1]

\* The task label of a line that has a marker: the line without the marker's
\* text, trimmed, and without one leading checkbox prefix.
taskLabel(line) ==
    LET match    == matchTimeLogs(line)
        stripped == trim(SliceTo(line, match.index) \o SliceFrom(line, match.end))
    IN  IF \E pre \in {UncheckedPrefix} \cup CheckedPrefixes : StartsWithAt(stripped, 0, pre)
        THEN trim(SliceFrom(stripped, 5))
        ELSE stripped

\* C11: the task label of every row is its line with the first marker
\* removed, trimmed, with exactly one leading checkbox prefix ("- [ ]",
\* "- [x]", "- [X]") stripped if there is one: task text that begins with a
\* checkbox-shaped substring behind the line's own checkbox keeps it.
C11_TaskLabel ==
    ran => \A k \in 1..Len(rows) :
              rows[k].task = taskLabel(splitLines(files[rows[k].file])[rows[k].line])

\* ------------------------------------------------------------------------
\* The range parser alone
\* ------------------------------------------------------------------------

\* What an entry starts with: "2025-08-28", "2025-13-40", "2025-8-28", "".
ParseDates ==
    { <<"2","0","2","5","-","0","8","-","2","8">>,
      <<"2","0","2","5","-","1","3","-","4","0">>,
      <<"2","0","2","5","-","8","-","2","8">>,
      <<>> }

\* Times, well-formed or not: "09:00", "10:30:15", "99:99", "9:00", "10:3".
ParseTimes ==
    { <<"0","9",":","0","0">>,
      <<"1","0",":","3","0",":","1","5">>,
      <<"9","9",":","9","9">>,
      <<"9",":","0","0">>,
      <<"1","0",":","3">> }

\* What follows the date: the four shapes over ParseTimes, and remainders of
\* no shape: "", "f", "-", "- 09:00", "09:00 -10:30", "09:00--10:30",
\* "-09:00-".
ParseRemainders ==
    {<<"-">> \o t : t \in ParseTimes}
    \cup {t \o <<"-">> : t \in ParseTimes}
    \cup {t1 \o <<"-">> \o t2 : t1 \in ParseTimes, t2 \in ParseTimes}
    \cup ParseTimes
    \cup { <<>>, <<"f">>, <<"-">>,
           <<"-"," ","0","9",":","0","0">>,
           <<"0","9",":","0","0"," ","-","1","0",":","3","0">>,
           <<"0","9",":","0","0","-","-","1","0",":","3","0">>,
           <<"-","0","9",":","0","0","-">> }

Padding == {<<>>, <<" ">>}

ParseEntries ==
    { lead \o date \o gap \o rest \o trail :
        lead \in Padding, date \in ParseDates, gap \in Padding,
        rest \in ParseRemainders, trail \in Padding }

InitParse ==
    /\ PluginIdle
    /\ files = Empty
    /\ clock = 0
    /\ EditorIdle /\ DiffIdle
    /\ rows = <<>>
    /\ entry \in ParseEntries
    /\ parsed = [from |-> <<>>, to |-> <<>>]
    /\ ran = FALSE

\* const { from, to } = this.parseFromTo(timeLog)
Parse ==
    /\ ~ran
    /\ parsed' = parseFromTo(entry)
    /\ ran' = TRUE
    /\ UNCHANGED <<pluginVars, clock, editorVars, diffVars, rows, entry>>

NextParse == Parse

SpecParse == InitParse /\ [][NextParse]_vars

\* A well-formed "YYYY-MM-DD HH:MM:SS".
WellFormedStamp(s) ==
    /\ Len(s) = 19
    /\ \A k \in {1, 2, 3, 4, 6, 7, 9, 10, 12, 13, 15, 16, 18, 19} : s[k] \in Digits
    /\ s[5] = "-" /\ s[8] = "-" /\ s[11] = " " /\ s[14] = ":" /\ s[17] = ":"

\* The stamp of a date and a time, the seconds "00" when the time has none.
stampOf(date, time) ==
    date \o <<" ">> \o (IF Len(time) = 8 THEN time ELSE time \o <<":", "0", "0">>)

\* The pieces SubSeq(s, i, j) of a string.
Pieces(s) == {SubSeq(s, i, j) : i \in 1..(Len(s) + 1), j \in 0..Len(s)}

\* C10: parseFromTo returns both results empty, or every non-empty result
\* is a well-formed "YYYY-MM-DD HH:MM:SS" made of the entry's leading date
\* and a time of it, the seconds defaulted to "00". With a leading date, a
\* remainder "-T" gives to-only, "T-" from-only, "T1-T2" both, a bare "T"
\* to-only; anything else, and an entry without leading date, gives both
\* empty.
C10_ParseFromTo ==
    ran =>
    LET text   == trim(entry)
        dated  == DateAtOffset(text, 0)
        date   == SubSeq(text, 1, 10)
        rest   == trim(SubSeq(text, 11, Len(text)))
        times  == {t \in Pieces(rest) : IsTime(t)}
        empty  == [from |-> <<>>, to |-> <<>>]
        shaped == \/ \E t \in times : rest \in {<<"-">> \o t, t \o <<"-">>, t}
                  \/ \E t1 \in times, t2 \in times : rest = t1 \o <<"-">> \o t2
    IN  /\ parsed.from # <<>> => WellFormedStamp(parsed.from)
        /\ parsed.to # <<>> => WellFormedStamp(parsed.to)
        /\ ~dated => parsed = empty
        /\ dated =>
              /\ \A t \in times :
                    /\ rest = <<"-">> \o t => parsed = [from |-> <<>>, to |-> stampOf(date, t)]
                    /\ rest = t \o <<"-">> => parsed = [from |-> stampOf(date, t), to |-> <<>>]
                    /\ rest = t            => parsed = [from |-> <<>>, to |-> stampOf(date, t)]
              /\ \A t1 \in times, t2 \in times :
                    rest = t1 \o <<"-">> \o t2
                       => parsed = [from |-> stampOf(date, t1), to |-> stampOf(date, t2)]
              /\ ~shaped => parsed = empty

\* A range whose times have no seconds was parsed.
C10_Witness ==
    /\ ran
    /\ parsed.from # <<>> /\ parsed.to # <<>>
    /\ Len(trim(entry)) <= 22

====
